---- MODULE Spec2Model ----
(***************************************************************************)
(* Model of lambda_function.py: the tic-tac-toe coordinator behind a       *)
(* websocket API.  One invocation of lambda_handler handles one inbound    *)
(* event ($connect, $disconnect, joinGame, makePlay, sendMessage) against  *)
(* the "connections" table and posts a snapshot to every scanned           *)
(* connection.                                                             *)
(*                                                                         *)
(* Python strings that the code takes apart (connType, move messages) are  *)
(* sequences of one-character strings, so that split, join and int are     *)
(* computed as the code computes them.  Connection ids are opaque and are  *)
(* TLA+ strings; "" is the code's "no such player".                        *)
(***************************************************************************)
EXTENDS Integers, Sequences, FiniteSets, TLC

(***************************************************************************)
(* Bounds                                                                  *)
(***************************************************************************)
\* Spec only: makePlay events are issued while fewer than MaxMoves moves are stored
MaxMoves == 3
\* Spec only: makePlay events name the board positions 0..MaxCell
MaxCell == 2

\* the connection ids the gateway hands out
ConnNames == <<"A", "B", "C">>
Conns == {ConnNames[i] : i \in 1..Len(ConnNames)}

(***************************************************************************)
(* Python string helpers                                                   *)
(***************************************************************************)
Digits == <<"0", "1", "2", "3", "4", "5", "6", "7", "8", "9">>

\* str(n) for a one-digit n, as in f"{avail[0]};"
str(n) == <<Digits[n + 1]>>

RECURSIVE IntAcc(_, _)
IntAcc(s, acc) ==
    IF s = <<>> THEN acc
    ELSE IntAcc(Tail(s), 10 * acc + ((CHOOSE d \in 1..10 : Digits[d] = Head(s)) - 1))

\* int(x) on a non-empty string of decimal digits: leading zeros are accepted
int(x) == IntAcc(x, 0)

RECURSIVE SplitAcc(_, _, _)
SplitAcc(s, sep, cur) ==
    IF s = <<>> THEN <<cur>>
    ELSE IF Head(s) = sep THEN <<cur>> \o SplitAcc(Tail(s), sep, <<>>)
    ELSE SplitAcc(Tail(s), sep, Append(cur, Head(s)))

\* s.split(sep)
split(s, sep) == SplitAcc(s, sep, <<>>)

RECURSIVE join(_, _)
\* sep.join(xs)
join(sep, xs) ==
    IF xs = <<>> THEN <<>>
    ELSE IF Len(xs) = 1 THEN xs[1]
    ELSE xs[1] \o <<sep>> \o join(sep, Tail(xs))

\* x in xs, for a Python list xs
In(x, xs) == \E i \in 1..Len(xs) : xs[i] = x

\* set([int(x) for x in check_arr])
IntSet(check_arr) == {int(check_arr[i]) : i \in 1..Len(check_arr)}

(***************************************************************************)
(* config._WINNING_COMBOS: the 8 winning triples of the 3x3 board          *)
(***************************************************************************)
_WINNING_COMBOS ==
    << <<0, 1, 2>>, <<3, 4, 5>>, <<6, 7, 8>>,
       <<0, 3, 6>>, <<1, 4, 7>>, <<2, 5, 8>>,
       <<0, 4, 8>>, <<2, 4, 6>> >>

\* any(set(combo).issubset(check_set) for combo in _WINNING_COMBOS)
HasCombo(check_set) ==
    \E i \in 1..Len(_WINNING_COMBOS) :
        {_WINNING_COMBOS[i][j] : j \in 1..3} \subseteq check_set

(***************************************************************************)
(* Inputs                                                                  *)
(***************************************************************************)
\* the canonical spelling of the board positions 0..8
Positions == {str(n) : n \in 0..8}
\* another spelling int() maps to a board position: "00" is position 0
AltSpellings == {<<"0", "0">>}
\* the makePlay messages of Spec
Messages == {str(n) : n \in 0..MaxCell} \cup AltSpellings
ChatMessages == {"hi"}

(***************************************************************************)
(* State                                                                   *)
(***************************************************************************)
VARIABLES
    tbl,            \* the connections table: connectionId -> connType
    route_key,      \* route of the last handled event
    connection_id,  \* caller of the last handled event
    decision,       \* decision computed by the last handler ("" if none)
    applied,        \* data["p1Moves"], data["p2Moves"] once the last handler
                    \* recorded a move (lines 133-141); empty lists if it did not
    response,       \* what the last invocation returned (or that it raised)
    posts,          \* post_to_connection calls of the last invocation, in order
    invocations     \* the handlers between their scan and their return, by caller;
                    \* empty where events are handled one at a time

vars == <<tbl, route_key, connection_id, decision, applied, response, posts,
          invocations>>

Success == [status |-> "Success", body |-> "Lambda executed successfully."]
Ineligible == [status |-> "Failure", body |-> "User ineligible to make play."]
AlreadyMade == [status |-> "Failure", body |-> "Move already made!"]
\* the invocation ended with an unhandled exception of the store
Raised == [status |-> "Error", body |-> "ValidationException"]

NotApplied == [p1Moves |-> <<>>, p2Moves |-> <<>>]

\* the empty dict {} of "newMessage"
NoMessage == [k \in {} |-> ""]

(***************************************************************************)
(* The connections table                                                   *)
(***************************************************************************)
\* the order in which a scan lists the items
RECURSIVE ScanFrom(_, _)
ScanFrom(t, i) ==
    IF i > Len(ConnNames) THEN <<>>
    ELSE (IF ConnNames[i] \in DOMAIN t
          THEN <<[connectionId |-> ConnNames[i], connType |-> t[ConnNames[i]]]>>
          ELSE <<>>) \o ScanFrom(t, i + 1)

\* tbl.scan()["Items"]
scan(t) == ScanFrom(t, 1)

\* tbl.put_item(Item={"connectionId": id, "connType": connType})
put_item(t, id, connType) ==
    [k \in DOMAIN t \cup {id} |-> IF k = id THEN connType ELSE t[k]]

\* a slip in line 81: leaving ends the game, every record left is a spectator's
delete_item_EndGame(t, id) ==
    [k \in DOMAIN t \ {id} |-> <<"2">>]

\* tbl.delete_item(Key={"connectionId": id})
delete_item(t, id) == [k \in DOMAIN t \ {id} |-> t[k]]

\* the store refuses a key whose attribute value is the empty string
ValidKey(id) == id # ""

\* tbl.update_item(Key={"connectionId": id}, SET connType = :t), for a key the
\* store accepts: the item is updated, or created when there is none
update_item(t, id, connType) ==
    [k \in DOMAIN t \cup {id} |-> IF k = id THEN connType ELSE t[k]]

(***************************************************************************)
(* scan_conns                                                              *)
(***************************************************************************)
RECURSIVE ScanLoop(_, _)
ScanLoop(conns, acc) ==
    IF conns = <<>> THEN acc
    ELSE LET conn == Head(conns)
             moves_str == split(conn.connType, ";")[2]
             next ==
                 IF conn.connType[1] = "0"
                 THEN [acc EXCEPT !.p1_id = conn.connectionId,
                                  !.p1_moves = IF moves_str # <<>>
                                               THEN split(moves_str, ",") ELSE @]
                 ELSE IF conn.connType[1] = "1"
                 THEN [acc EXCEPT !.p2_id = conn.connectionId,
                                  !.p2_moves = IF moves_str # <<>>
                                               THEN split(moves_str, ",") ELSE @]
                 ELSE acc
         IN  ScanLoop(Tail(conns), next)

\* a slip in line 38: player one is offered whoever holds it
Avail_NoP1Check(p1_id, p2_id) ==
    <<0>> \o (IF p2_id = "" THEN <<1>> ELSE <<>>) \o <<2>>

Avail(p1_id, p2_id) ==
    (IF p1_id = "" THEN <<0>> ELSE <<>>) \o (IF p2_id = "" THEN <<1>> ELSE <<>>) \o <<2>>

scan_conns(conns) ==
    LET r == ScanLoop(conns, [p1_id |-> "", p2_id |-> "", p1_moves |-> <<>>, p2_moves |-> <<>>])
    IN  [avail |-> Avail(r.p1_id, r.p2_id), p1_id |-> r.p1_id, p2_id |-> r.p2_id,
         p1_moves |-> r.p1_moves, p2_moves |-> r.p2_moves]

\* the data packet built from the scan (lines 86-93)
Data(g) ==
    [avail |-> g.avail, p1Id |-> g.p1_id, p2Id |-> g.p2_id,
     p1Moves |-> g.p1_moves, p2Moves |-> g.p2_moves, newMessage |-> NoMessage]

\* data["connectionId"] = conn_id
WithId(data, conn_id) ==
    [avail |-> data.avail, p1Id |-> data.p1Id, p2Id |-> data.p2Id,
     p1Moves |-> data.p1Moves, p2Moves |-> data.p2Moves,
     newMessage |-> data.newMessage, connectionId |-> conn_id]

\* the broadcast loop: one post per scanned connection, carrying its own id
RECURSIVE Broadcast(_, _)
Broadcast(conns, data) ==
    IF conns = <<>> THEN <<>>
    ELSE <<[ConnectionId |-> Head(conns).connectionId,
            Data |-> WithId(data, Head(conns).connectionId)]>>
         \o Broadcast(Tail(conns), data)

(***************************************************************************)
(* lambda_handler, one action per route.  The gateway issues $connect for  *)
(* an id that is not connected and the other routes for a connected one.   *)
(***************************************************************************)
Init ==
    /\ tbl = [k \in {} |-> <<>>]
    /\ route_key = ""
    /\ connection_id = ""
    /\ decision = ""
    /\ applied = NotApplied
    /\ response = Success
    /\ posts = <<>>
    /\ invocations = <<>>

\* ROUTE $connect
Connect(c) ==
    /\ c \notin DOMAIN tbl
    /\ tbl' = put_item(tbl, c, <<"2">>)
    /\ route_key' = "$connect"
    /\ connection_id' = c
    /\ invocations' = invocations
    /\ decision' = ""
    /\ applied' = NotApplied
    /\ response' = Success
    /\ posts' = <<>>

\* ROUTE $disconnect
Disconnect(c) ==
    /\ c \in DOMAIN tbl
    /\ LET t1 == delete_item(tbl, c)
           conns == scan(t1)
           data == Data(scan_conns(conns))
       IN  /\ tbl' = t1
           /\ posts' = Broadcast(conns, data)
    /\ route_key' = "$disconnect"
    /\ connection_id' = c
    /\ invocations' = invocations
    /\ decision' = ""
    /\ applied' = NotApplied
    /\ response' = Success

\* a slip in line 102: the last player role on offer is written, not the first
JoinTable_LastRole(t, c, avail) ==
    IF In(0, avail) \/ In(1, avail)
    THEN update_item(t, c, str(avail[Len(avail) - 1]) \o <<";">>)
    ELSE t

\* the table after the joinGame route (lines 96-103)
JoinTable(t, c, avail) ==
    IF In(0, avail) \/ In(1, avail)
    THEN update_item(t, c, str(avail[1]) \o <<";">>)
    ELSE t

\* the data packet after the joinGame route (lines 105-110)
JoinData(data, c, avail) ==
    IF In(0, avail) \/ In(1, avail)
    THEN IF avail[1] = 0
         THEN [data EXCEPT !.p1Id = c, !.avail = Tail(avail)]
         ELSE [data EXCEPT !.p2Id = c, !.avail = Tail(avail)]
    ELSE data

\* ROUTE joinGame
JoinGame(c) ==
    /\ c \in DOMAIN tbl
    /\ LET conns == scan(tbl)
           g == scan_conns(conns)
       IN  /\ tbl' = JoinTable(tbl, c, g.avail)
           /\ posts' = Broadcast(conns, JoinData(Data(g), c, g.avail))
    /\ route_key' = "joinGame"
    /\ connection_id' = c
    /\ invocations' = invocations
    /\ decision' = ""
    /\ applied' = NotApplied
    /\ response' = Success

\* ROUTE sendMessage
SendMessage(c, message) ==
    /\ c \in DOMAIN tbl
    /\ LET conns == scan(tbl)
           data == [Data(scan_conns(conns)) EXCEPT
                       !.newMessage = [senderId |-> c, chatMessage |-> message]]
       IN  posts' = Broadcast(conns, data)
    /\ tbl' = tbl
    /\ route_key' = "sendMessage"
    /\ connection_id' = c
    /\ invocations' = invocations
    /\ decision' = ""
    /\ applied' = NotApplied
    /\ response' = Success

\* a guard line 115 does not have: both player roles must be held
Eligible_GameStarted(c, g) ==
    ~((c # g.p1_id) /\ (c # g.p2_id)) /\ g.p1_id # "" /\ g.p2_id # ""

\* the caller is one of the two players (line 115)
Eligible(c, g) == ~((c # g.p1_id) /\ (c # g.p2_id))

\* a slip in line 124: only the caller's own moves are looked at
AlreadyMade_OwnOnly(message, g) == In(message, g.p1_moves)

\* the play has been made already (line 124)
AlreadyMade_(message, g) == In(message, g.p1_moves) \/ In(message, g.p2_moves)

\* a slip in lines 134 and 139: the move is put in front of the list
Apply_InFront(c, message, g) ==
    LET p1Moves == IF c = g.p1_id THEN <<message>> \o g.p1_moves ELSE g.p1_moves
        p2Moves == IF c = g.p2_id THEN <<message>> \o g.p2_moves ELSE g.p2_moves
    IN  [p1Moves |-> p1Moves, p2Moves |-> p2Moves,
         moves_str |-> IF c = g.p2_id THEN <<"1", ";">> \o join(",", p2Moves)
                       ELSE <<"0", ";">> \o join(",", p1Moves),
         check_arr |-> IF c = g.p2_id THEN p2Moves
                       ELSE IF c = g.p1_id THEN p1Moves ELSE <<>>]

\* the move lists after the move is recorded (lines 133-141)
Apply(c, message, g) ==
    LET p1Moves == IF c = g.p1_id THEN Append(g.p1_moves, message) ELSE g.p1_moves
        p2Moves == IF c = g.p2_id THEN Append(g.p2_moves, message) ELSE g.p2_moves
    IN  [p1Moves |-> p1Moves, p2Moves |-> p2Moves,
         moves_str |-> IF c = g.p2_id THEN <<"1", ";">> \o join(",", p2Moves)
                       ELSE <<"0", ";">> \o join(",", p1Moves),
         check_arr |-> IF c = g.p2_id THEN p2Moves
                       ELSE IF c = g.p1_id THEN p1Moves ELSE <<>>]

\* a slip in line 146: the outcome is looked for from the fourth move on
Decide_FromFourth(check_arr, p1Moves, p2Moves) ==
    LET check_set == IntSet(check_arr)
    IN  IF Cardinality(check_set) > 3
        THEN IF HasCombo(check_set) THEN "won"
             ELSE IF Len(p1Moves) + Len(p2Moves) = 9 THEN "tied"
             ELSE ""
        ELSE ""

\* a slip in line 157: only the caller's moves are counted for the tie
Decide_OwnCount(check_arr, p1Moves, p2Moves) ==
    LET check_set == IntSet(check_arr)
    IN  IF Cardinality(check_set) >= 3
        THEN IF HasCombo(check_set) THEN "won"
             ELSE IF Len(check_arr) = 9 THEN "tied"
             ELSE ""
        ELSE ""

\* the game outcome at this time (lines 144-159)
Decide(check_arr, p1Moves, p2Moves) ==
    LET check_set == IntSet(check_arr)
    IN  IF Cardinality(check_set) >= 3
        THEN IF HasCombo(check_set) THEN "won"
             ELSE IF Len(p1Moves) + Len(p2Moves) = 9 THEN "tied"
             ELSE ""
        ELSE ""

\* a slip in line 164: the loser is taken from the winner's side
Announcement_LoserSlip(c, d, g) ==
    LET winner == c
        loser == IF g.p1_id = winner THEN g.p1_id ELSE g.p2_id
    IN  [senderId |-> "GAME",
         chatMessage |-> <<winner, " has ", d, " against ", loser, "!">>]

\* f"{winner} has {decision} against {loser}!" (lines 163-164, 187)
Announcement(c, d, g) ==
    LET winner == c
        loser == IF g.p1_id = winner THEN g.p2_id ELSE g.p1_id
    IN  [senderId |-> "GAME",
         chatMessage |-> <<winner, " has ", d, " against ", loser, "!">>]

\* clear game info (lines 179-189)
Cleared(c, d, g) ==
    [avail |-> <<0, 1, 2>>, p1Id |-> "", p2Id |-> "",
     p1Moves |-> <<>>, p2Moves |-> <<>>, newMessage |-> Announcement(c, d, g)]

\* make p1 and p2 spectators (lines 167-176): the two writes in order, ending
\* at the first key the store refuses
Reset(t, g) ==
    IF ~ValidKey(g.p1_id) THEN [tbl |-> t, raised |-> TRUE]
    ELSE IF ~ValidKey(g.p2_id)
    THEN [tbl |-> update_item(t, g.p1_id, <<"2">>), raised |-> TRUE]
    ELSE [tbl |-> update_item(update_item(t, g.p1_id, <<"2">>), g.p2_id, <<"2">>),
          raised |-> FALSE]

\* a slip: the rejection falls through to the broadcast instead of returning
Rejected_FallThrough(t, failure, conns, data) ==
    [tbl |-> t, decision |-> "", applied |-> NotApplied, response |-> failure,
     posts |-> Broadcast(conns, data)]

\* the early returns (lines 116-121, 125-130): nothing is written or posted
Rejected(t, failure, conns, data) ==
    [tbl |-> t, decision |-> "", applied |-> NotApplied, response |-> failure,
     posts |-> <<>>]

\* the makePlay route (lines 113-197) and the broadcast (lines 205-210)
Play(t, c, message) ==
    LET conns == scan(t)
        g == scan_conns(conns)
        a == Apply(c, message, g)
        d == Decide(a.check_arr, a.p1Moves, a.p2Moves)
        r == Reset(t, g)
        data == [Data(g) EXCEPT !.p1Moves = a.p1Moves, !.p2Moves = a.p2Moves]
        moved == [p1Moves |-> a.p1Moves, p2Moves |-> a.p2Moves]
    IN  IF ~Eligible(c, g) THEN Rejected(t, Ineligible, conns, Data(g))
        ELSE IF AlreadyMade_(message, g) THEN Rejected(t, AlreadyMade, conns, Data(g))
        ELSE IF d # ""
        THEN IF r.raised
             THEN [tbl |-> r.tbl, decision |-> d, applied |-> moved,
                   response |-> Raised, posts |-> <<>>]
             ELSE [tbl |-> r.tbl, decision |-> d, applied |-> moved,
                   response |-> Success, posts |-> Broadcast(conns, Cleared(c, d, g))]
        ELSE [tbl |-> update_item(t, c, a.moves_str), decision |-> d, applied |-> moved,
              response |-> Success, posts |-> Broadcast(conns, data)]

\* ROUTE makePlay
MakePlay(c, message) ==
    /\ c \in DOMAIN tbl
    /\ \E r \in {Play(tbl, c, message)} :
           /\ tbl' = r.tbl
           /\ decision' = r.decision
           /\ applied' = r.applied
           /\ response' = r.response
           /\ posts' = r.posts
    /\ route_key' = "makePlay"
    /\ connection_id' = c
    /\ invocations' = invocations

\* the number of moves stored in the table
Stored(t) ==
    LET g == scan_conns(scan(t)) IN Len(g.p1_moves) + Len(g.p2_moves)

Next ==
    \/ \E c \in Conns : Connect(c)
    \/ \E c \in Conns : Disconnect(c)
    \/ \E c \in Conns : JoinGame(c)
    \/ /\ Stored(tbl) < MaxMoves
       /\ \E c \in Conns, message \in Messages : MakePlay(c, message)
    \/ \E c \in Conns, message \in ChatMessages : SendMessage(c, message)

Spec == Init /\ [][Next]_vars

(***************************************************************************)
(* SpecGame: whole games on the full board between the connections A and B.*)
(* Both are connected; they join and play any of the positions 0..8.  The  *)
(* handler reads a move list only through membership, set(...) and len(...)*)
(* so one order per set of cells is explored: a caller names a cell above  *)
(* the cells of its own record.                                            *)
(***************************************************************************)
GameConns == {"A", "B"}

InitGame ==
    /\ tbl = [k \in GameConns |-> <<"2">>]
    /\ route_key = ""
    /\ connection_id = ""
    /\ decision = ""
    /\ applied = NotApplied
    /\ response = Success
    /\ posts = <<>>
    /\ invocations = <<>>

\* the moves stored in c's record
OwnMoves(t, c) ==
    LET parts == split(t[c], ";")
        moves_str == IF Len(parts) > 1 THEN parts[2] ELSE <<>>
    IN  IF moves_str = <<>> THEN <<>> ELSE split(moves_str, ",")

Ascending(t, c, message) ==
    LET own == OwnMoves(t, c)
    IN  \A i \in 1..Len(own) : int(own[i]) < int(message)

NextGame ==
    \/ \E c \in GameConns : JoinGame(c)
    \/ \E c \in GameConns, message \in Positions :
           Ascending(tbl, c, message) /\ MakePlay(c, message)

SpecGame == InitGame /\ [][NextGame]_vars

(***************************************************************************)
(* The registry as the claims read it                                      *)
(***************************************************************************)
\* the role tag of c's record: "0" player one, "1" player two, "2" spectator
Role(t, c) == t[c][1]
Holders(t, role) == {c \in DOMAIN t : Role(t, c) = role}
\* the moves of the holder(s) of a role, as stored
RoleMoves(t, role) == {OwnMoves(t, c) : c \in Holders(t, role)}
IsSpectator(t, c) == t[c] = <<"2">>
\* t and u agree on every record but c's
SameButFor(t, u, c) ==
    /\ DOMAIN t = DOMAIN u
    /\ \A k \in DOMAIN t \ {c} : t[k] = u[k]

(***************************************************************************)
(* C1: when events are handled one at a time, after any sequence of        *)
(* Connect, Disconnect, JoinGame and MakePlay events at most one record    *)
(* holds PlayerOne and at most one holds PlayerTwo.                        *)
(***************************************************************************)
C1_AtMostOneHolderPerRole ==
    /\ Cardinality(Holders(tbl, "0")) <= 1
    /\ Cardinality(Holders(tbl, "1")) <= 1

\* a third connection has asked to join while both player roles were held
C1_Witness ==
    /\ route_key = "joinGame"
    /\ Holders(tbl, "0") # {} /\ Holders(tbl, "1") # {}
    /\ connection_id \in Holders(tbl, "2")

(***************************************************************************)
(* C2: JoinGame(c): if PlayerOne is unheld, c's record becomes PlayerOne   *)
(* with no moves; otherwise if PlayerTwo is unheld, c's record becomes     *)
(* PlayerTwo with no moves; if both are held the registry is unchanged.    *)
(* No other record changes in any case.                                    *)
(***************************************************************************)
C2_JoinEffect(c) ==
    IF Holders(tbl, "0") = {}
    THEN Role(tbl', c) = "0" /\ OwnMoves(tbl', c) = <<>> /\ SameButFor(tbl, tbl', c)
    ELSE IF Holders(tbl, "1") = {}
    THEN Role(tbl', c) = "1" /\ OwnMoves(tbl', c) = <<>> /\ SameButFor(tbl, tbl', c)
    ELSE tbl' = tbl

\* C2: every joinGame step assigns the first free player role, or changes nothing
C2_JoinAssignsFirstFreeRole ==
    [][\A c \in Conns :
          (route_key' = "joinGame" /\ connection_id' = c /\ JoinGame(c))
              => C2_JoinEffect(c)]_vars

\* a join has filled player two because player one was held by another
C2_Witness ==
    /\ route_key = "joinGame"
    /\ connection_id \in Holders(tbl, "1")
    /\ Holders(tbl, "0") \ {connection_id} # {}

(***************************************************************************)
(* C3: a JoinGame by a connection that already holds a player role is a    *)
(* no-op: the caller keeps its role and its moves and the other player     *)
(* slot stays as it was, whether or not the other role is available.       *)
(***************************************************************************)
C3_RejoinIsNoOp ==
    [][\A c \in Conns :
          (route_key' = "joinGame" /\ connection_id' = c /\ JoinGame(c)
              /\ Role(tbl, c) \in {"0", "1"}) => tbl' = tbl]_vars

(***************************************************************************)
(* C4: MakePlay(c, pos) is rejected with "User ineligible to make play."   *)
(* exactly when c holds neither player role, and otherwise with "Move      *)
(* already made!" exactly when pos is already in the move sequence of      *)
(* either player, whichever of the two players calls; a non-player naming  *)
(* a taken cell gets the ineligible rejection.                             *)
(***************************************************************************)
C4_Taken(message) ==
    \E role \in {"0", "1"} : \E moves \in RoleMoves(tbl, role) : In(message, moves)

C4_Rejection(c, message) ==
    /\ response' = Ineligible <=> Role(tbl, c) = "2"
    /\ response' = AlreadyMade <=> (Role(tbl, c) # "2" /\ C4_Taken(message))

C5_RejectionChangesNothing ==
    [][\A c \in Conns, message \in Messages :
          (route_key' = "makePlay" /\ connection_id' = c /\ response'.status = "Failure"
              /\ MakePlay(c, message))
              => (tbl' = tbl /\ posts' = <<>>)]_vars

\* a spectator's move has been refused while a game with moves is on
C5_Witness ==
    /\ route_key = "makePlay"
    /\ response = Ineligible
    /\ connection_id \in Holders(tbl, "2")
    /\ \E moves \in RoleMoves(tbl, "0") : moves # <<>>
    /\ Holders(tbl, "1") # {}

(***************************************************************************)
(* C6: when events are handled one at a time, in every reachable registry  *)
(* state no board position appears more than once across the two players'  *)
(* move sequences, neither twice in one sequence nor in both.              *)
(***************************************************************************)
C6_NoCellTwice ==
    LET g == scan_conns(scan(tbl))
        all == g.p1_moves \o g.p2_moves
    IN  \A i, j \in 1..Len(all) : i < j => int(all[i]) # int(all[j])

(***************************************************************************)
(* C7: for every accepted MakePlay over the positions 0..8 the outcome is  *)
(* Won exactly when the caller's own positions, the new one included,      *)
(* contain one of the 8 winning triples; this is so on the 9th move too,   *)
(* where a completed triple gives Won and not Tied.                        *)
(***************************************************************************)
Triples ==
    {{0, 1, 2}, {3, 4, 5}, {6, 7, 8}, {0, 3, 6}, {1, 4, 7}, {2, 5, 8}, {0, 4, 8}, {2, 4, 6}}
HasTriple(cells) == \E triple \in Triples : triple \subseteq cells
Accepted(r) == r \notin {Ineligible, AlreadyMade}

\* C7: every accepted makePlay step decides "won" exactly when the caller's cells
\* with the new one contain a winning triple
C7_WonIffCallerHasTriple ==
    [][\A c \in GameConns, message \in Positions :
          (route_key' = "makePlay" /\ connection_id' = c /\ Accepted(response')
              /\ MakePlay(c, message))
              => (decision' = "won"
                    <=> HasTriple(IntSet(Append(OwnMoves(tbl, c), message))))]_vars

\* the ninth move of a game has completed a triple and the outcome is Won
C7_Witness ==
    /\ route_key = "makePlay"
    /\ decision = "won"
    /\ Len(applied.p1Moves) + Len(applied.p2Moves) = 9

(***************************************************************************)
(* C8: whenever an accepted MakePlay fills the last of the 9 cells and no  *)
(* winning triple is present for either player, the outcome is Tied, in    *)
(* every reachable game.                                                   *)
(***************************************************************************)
C8_FullBoardWithoutTripleIsTied ==
    (/\ route_key = "makePlay"
     /\ Accepted(response)
     /\ Len(applied.p1Moves) + Len(applied.p2Moves) = 9
     /\ IntSet(applied.p1Moves) \cup IntSet(applied.p2Moves) = 0..8
     /\ ~HasTriple(IntSet(applied.p1Moves))
     /\ ~HasTriple(IntSet(applied.p2Moves)))
        => decision = "tied"

\* a game has ended in a tie
C8_Witness ==
    /\ route_key = "makePlay"
    /\ decision = "tied"
    /\ Len(applied.p1Moves) + Len(applied.p2Moves) = 9

(***************************************************************************)
(* C9: after the handling of any MakePlay whose outcome is Won or Tied,    *)
(* the connections that were players are spectators with no moves, no      *)
(* connection holds a player role, and the available roles derived from    *)
(* the registry contain both PlayerOne and PlayerTwo.                      *)
(***************************************************************************)
C9_TerminalOutcomeResetsPlayers ==
    (route_key = "makePlay" /\ decision \in {"won", "tied"})
        => /\ \A c \in DOMAIN tbl : IsSpectator(tbl, c)
           /\ In(0, scan_conns(scan(tbl)).avail)
           /\ In(1, scan_conns(scan(tbl)).avail)

(***************************************************************************)
(* C10: from the registry with spectators A and B and no players, the      *)
(* events JoinGame(A), JoinGame(B), MakePlay(A,0), MakePlay(B,3),          *)
(* MakePlay(A,1), MakePlay(B,4), MakePlay(A,2) make A PlayerOne and B      *)
(* PlayerTwo, every move is accepted, the last one has outcome Won, A and  *)
(* B end as spectators with no moves, and the final snapshot has both ids  *)
(* and both move lists empty and announces A as winner and B as loser.     *)
(***************************************************************************)
Registry(a, b) == [k \in GameConns |-> IF k = "A" THEN a ELSE b]
Scenario ==
    << [route |-> "joinGame", c |-> "A", message |-> <<>>],
       [route |-> "joinGame", c |-> "B", message |-> <<>>],
       [route |-> "makePlay", c |-> "A", message |-> <<"0">>],
       [route |-> "makePlay", c |-> "B", message |-> <<"3">>],
       [route |-> "makePlay", c |-> "A", message |-> <<"1">>],
       [route |-> "makePlay", c |-> "B", message |-> <<"4">>],
       [route |-> "makePlay", c |-> "A", message |-> <<"2">>] >>
\* the registry before the scenario and after each of its events
ScenarioRegistry ==
    << Registry(<<"2">>, <<"2">>),
       Registry(<<"0", ";">>, <<"2">>),
       Registry(<<"0", ";">>, <<"1", ";">>),
       Registry(<<"0", ";", "0">>, <<"1", ";">>),
       Registry(<<"0", ";", "0">>, <<"1", ";", "3">>),
       Registry(<<"0", ";", "0", ",", "1">>, <<"1", ";", "3">>),
       Registry(<<"0", ";", "0", ",", "1">>, <<"1", ";", "3", ",", "4">>),
       Registry(<<"2">>, <<"2">>) >>
\* the event e is handled in this step
Handles(e) ==
    /\ route_key' = e.route
    /\ connection_id' = e.c
    /\ IF e.route = "joinGame" THEN JoinGame(e.c) ELSE MakePlay(e.c, e.message)

FinalSnapshot(data) ==
    /\ data.p1Id = "" /\ data.p2Id = ""
    /\ data.p1Moves = <<>> /\ data.p2Moves = <<>>
    /\ data.newMessage = [senderId |-> "GAME",
                           chatMessage |-> <<"A", " has ", "won", " against ", "B", "!">>]

\* C10: each event of the scenario, handled in the registry the scenario has
\* reached, gives the next registry of the scenario and the final snapshot
C10_Scenario ==
    [][\A k \in 1..Len(Scenario) :
          (tbl = ScenarioRegistry[k] /\ Handles(Scenario[k]))
              => /\ tbl' = ScenarioRegistry[k + 1]
                 /\ response' = Success
                 /\ decision' = (IF k = Len(Scenario) THEN "won" ELSE "")
                 /\ k = Len(Scenario) =>
                        /\ \A c \in GameConns : IsSpectator(tbl', c)
                        /\ {posts'[i].ConnectionId : i \in 1..Len(posts')} = GameConns
                        /\ \A i \in 1..Len(posts') : FinalSnapshot(posts'[i].Data)]_vars

\* the last event of the scenario has been handled
C10_Witness ==
    /\ tbl = ScenarioRegistry[Len(Scenario) + 1]
    /\ route_key = "makePlay"
    /\ connection_id = "A"
    /\ decision = "won"
    /\ applied = [p1Moves |-> << <<"0">>, <<"1">>, <<"2">> >>,
                   p2Moves |-> << <<"3">>, <<"4">> >>]

(***************************************************************************)
(* SpecTransport: the handler with a transport that can fail.              *)
(* post_to_connection raises for a recipient whose socket is gone (its     *)
(* $disconnect has not been handled yet).  The loop of lines 205-210 has   *)
(* no handler for the exception, so it ends the loop and the invocation.   *)
(***************************************************************************)
GoneRaised == [status |-> "Error", body |-> "GoneException"]

\* lambda_handler as a function of the table and the event, the transport
\* delivering every post
lambda_handler(t, route, c, message) ==
    IF route = "$connect"
    THEN [tbl |-> put_item(t, c, <<"2">>), decision |-> "",
          applied |-> NotApplied, response |-> Success, posts |-> <<>>]
    ELSE IF route = "makePlay"
    THEN Play(t, c, message)
    ELSE LET t1 == IF route = "$disconnect" THEN delete_item(t, c) ELSE t
             conns == scan(t1)
             g == scan_conns(conns)
             data == Data(g)
         IN  [tbl |-> IF route = "joinGame" THEN JoinTable(t1, c, g.avail) ELSE t1,
              decision |-> "",
              applied |-> NotApplied,
              response |-> Success,
              posts |-> Broadcast(conns,
                            IF route = "joinGame" THEN JoinData(data, c, g.avail)
                            ELSE IF route = "sendMessage"
                            THEN [data EXCEPT !.newMessage =
                                     [senderId |-> c, chatMessage |-> message]]
                            ELSE data)]

\* the posts made before the loop meets a recipient that is gone
RECURSIVE Delivered(_, _)
Delivered(ps, gone) ==
    IF ps = <<>> \/ Head(ps).ConnectionId \in gone THEN <<>>
    ELSE <<Head(ps)>> \o Delivered(Tail(ps), gone)

Recipients(ps) == {ps[i].ConnectionId : i \in 1..Len(ps)}

\* one invocation; the sockets in gone refuse their post
Invoke(route, c, message, gone) ==
    /\ c \in DOMAIN tbl
    /\ \E r \in {lambda_handler(tbl, route, c, message)} :
           /\ tbl' = r.tbl
           /\ decision' = r.decision
           /\ applied' = r.applied
           /\ posts' = Delivered(r.posts, gone)
           /\ response' = IF Recipients(r.posts) \cap gone = {} THEN r.response
                          ELSE GoneRaised
    /\ route_key' = route
    /\ connection_id' = c
    /\ invocations' = invocations

\* at most one socket is gone at a time
Gone == {{}} \cup {{c} : c \in Conns}

NextTransport ==
    \/ \E c \in Conns : Connect(c)
    \/ \E c \in Conns, gone \in Gone : Invoke("$disconnect", c, "", gone)
    \/ \E c \in Conns, gone \in Gone : Invoke("joinGame", c, "", gone)
    \/ /\ Stored(tbl) < MaxMoves
       /\ \E c \in Conns, message \in Positions, gone \in Gone :
              int(message) <= MaxCell /\ Invoke("makePlay", c, message, gone)
    \/ \E c \in Conns, message \in ChatMessages, gone \in Gone :
           Invoke("sendMessage", c, message, gone)

SpecTransport == Init /\ [][NextTransport]_vars

\* C11: when the post to one recipient fails, every other connection the
\* handler scanned still receives the snapshot of that event
C11_FailureDoesNotAbortBroadcast ==
    [][\A c \in Conns, failed \in Conns :
          (/\ connection_id' = c
           /\ response' = GoneRaised
           /\ failed \in DOMAIN tbl'
           /\ failed \notin Recipients(posts'))
              => DOMAIN tbl' \ {failed} \subseteq Recipients(posts')]_vars

(***************************************************************************)
(* C12, C13: the broadcast of an event, with a transport that delivers.    *)
(***************************************************************************)
Broadcasting == {"$disconnect", "joinGame", "sendMessage", "makePlay"}

\* C12: after a $disconnect, joinGame, sendMessage or accepted makePlay event
\* every connection in the registry has been sent exactly one snapshot, which
\* carries its own id, and a connection the event removed has been sent none
C12_OneSnapshotPerConnection ==
    (route_key \in Broadcasting /\ Accepted(response))
        => /\ Recipients(posts) = DOMAIN tbl
           /\ Len(posts) = Cardinality(DOMAIN tbl)
           /\ \A i \in 1..Len(posts) :
                  posts[i].Data.connectionId = posts[i].ConnectionId
           /\ route_key = "$disconnect" => connection_id \notin Recipients(posts)

\* the tuple scan_conns derives from a registry
Derived(t) ==
    LET g == scan_conns(scan(t))
    IN  <<g.avail, g.p1_id, g.p2_id, g.p1_moves, g.p2_moves>>

\* C13: the snapshot an event broadcasts equals the tuple scan_conns derives
\* from the registry as it stands after the event's writes
C13_SnapshotIsScanOfRegistry ==
    (route_key \in Broadcasting /\ Accepted(response))
        => \A i \in 1..Len(posts) :
               LET d == posts[i].Data
               IN  <<d.avail, d.p1Id, d.p2Id, d.p1Moves, d.p2Moves>> = Derived(tbl)

(***************************************************************************)
(* SpecSpelled: games on the full board between player one A and player   *)
(* two B, who have joined, where a position may be sent in any spelling    *)
(* that int(x) reads as a number in 0..8.  One order per set of messages   *)
(* is explored, as in SpecGame.                                            *)
(***************************************************************************)
InitSpelled ==
    /\ tbl = [k \in GameConns |-> IF k = "A" THEN <<"0", ";">> ELSE <<"1", ";">>]
    /\ route_key = "joinGame"
    /\ connection_id = "B"
    /\ decision = ""
    /\ applied = NotApplied
    /\ response = Success
    /\ posts = <<>>
    /\ invocations = <<>>

SpelledAscending(t, c, message) ==
    LET own == OwnMoves(t, c)
    IN  \A i \in 1..Len(own) :
            \/ int(own[i]) < int(message)
            \/ int(own[i]) = int(message) /\ Len(own[i]) < Len(message)

NextSpelled ==
    \E c \in GameConns, message \in Positions \cup AltSpellings :
        SpelledAscending(tbl, c, message) /\ MakePlay(c, message)

SpecSpelled == InitSpelled /\ [][NextSpelled]_vars

\* C14: with events handled one at a time and positions in 0..8, in every
\* registry a handler leaves behind no player's stored moves contain a
\* winning triple and the two players store at most 8 moves together
C14_TerminalNeverStored ==
    LET g == scan_conns(scan(tbl))
    IN  /\ ~HasTriple(IntSet(g.p1_moves))
        /\ ~HasTriple(IntSet(g.p2_moves))
        /\ Len(g.p1_moves) + Len(g.p2_moves) <= 8

\* C15: an accepted makePlay step that leaves the game in progress changes the
\* caller's record only: its role stays, its moves are the previous moves with
\* the position at the end, and every other record is as it was
C15_InProgressMoveChangesOnlyCaller ==
    [][\A c \in Conns, message \in Messages :
          (/\ route_key' = "makePlay" /\ connection_id' = c
           /\ Accepted(response') /\ decision' = ""
           /\ MakePlay(c, message))
              => /\ SameButFor(tbl, tbl', c)
                 /\ Role(tbl', c) = Role(tbl, c)
                 /\ OwnMoves(tbl', c) = Append(OwnMoves(tbl, c), message)]_vars

\* a player has added a second move to its record while the other player has
\* a move and a spectator is connected
C15_Witness ==
    /\ route_key = "makePlay" /\ response = Success /\ decision = ""
    /\ connection_id \in DOMAIN tbl
    /\ Len(OwnMoves(tbl, connection_id)) = 2
    /\ \E c \in DOMAIN tbl \ {connection_id} :
           Role(tbl, c) \in {"0", "1"} /\ OwnMoves(tbl, c) # <<>>
    /\ \E c \in DOMAIN tbl : IsSpectator(tbl, c)

\* the player role c does not hold
OtherRole(role) == IF role = "0" THEN "1" ELSE "0"

Writes(t, route, c, message) ==
    LET g == scan_conns(scan(t))
        a == Apply(c, message, g)
    IN  IF route = "joinGame"
        THEN IF In(0, g.avail) \/ In(1, g.avail)
             THEN <<[key |-> c, connType |-> str(g.avail[1]) \o <<";">>]>>
             ELSE <<>>
        ELSE IF route = "makePlay"
        THEN IF ~Eligible(c, g) \/ AlreadyMade_(message, g) THEN <<>>
             ELSE IF Decide(a.check_arr, a.p1Moves, a.p2Moves) # ""
             THEN <<[key |-> g.p1_id, connType |-> <<"2">>],
                    [key |-> g.p2_id, connType |-> <<"2">>]>>
             ELSE <<[key |-> c, connType |-> a.moves_str]>>
        ELSE <<>>

\* the handler of c is entered and scans the table
Scan(c, route, message) ==
    /\ c \in DOMAIN tbl
    /\ c \notin DOMAIN invocations
    /\ invocations' =
           [k \in DOMAIN invocations \cup {c} |->
               IF k = c
               THEN [route |-> route, message |-> message, seen |-> tbl,
                     writes |-> Writes(tbl, route, c, message)]
               ELSE invocations[k]]
    /\ UNCHANGED <<tbl, route_key, connection_id, decision, applied, response, posts>>

\* the next update_item call of c's handler, on the table as it is now
Write(c) ==
    /\ c \in DOMAIN invocations
    /\ invocations[c].writes # <<>>
    /\ LET w == Head(invocations[c].writes)
       IN  /\ ValidKey(w.key)
           /\ tbl' = update_item(tbl, w.key, w.connType)
    /\ invocations' = [invocations EXCEPT ![c].writes = Tail(@)]
    /\ UNCHANGED <<route_key, connection_id, decision, applied, response, posts>>

\* c's handler ends: it has made its writes and posts what it built from its
\* scan, or the store has refused its next write
Return(c) ==
    /\ c \in DOMAIN invocations
    /\ IF invocations[c].writes = <<>> THEN TRUE
       ELSE ~ValidKey(Head(invocations[c].writes).key)
    /\ \E f \in {invocations[c]} :
         \E r \in {lambda_handler(f.seen, f.route, c, f.message)} :
           /\ route_key' = f.route
           /\ decision' = r.decision
           /\ applied' = r.applied
           /\ response' = r.response
           /\ posts' = r.posts
    /\ connection_id' = c
    /\ invocations' = [k \in DOMAIN invocations \ {c} |-> invocations[k]]
    /\ tbl' = tbl

NextConcurrent ==
    \/ \E c \in GameConns : Scan(c, "joinGame", "")
    \/ /\ Stored(tbl) < MaxMoves
       /\ \E c \in GameConns, message \in Positions :
              /\ int(message) <= MaxCell
              /\ Ascending(tbl, c, message)
              /\ Scan(c, "makePlay", message)
    \/ \E c \in GameConns : Write(c)
    \/ \E c \in GameConns : Return(c)

SpecConcurrent == InitGame /\ [][NextConcurrent]_vars

\* C17: with handlers interleaving at store-operation granularity, in every
\* registry at most one connection is player one and at most one is player two
C17_AtMostOneHolderInterleaved ==
    \A role \in {"0", "1"} : \A c, d \in Holders(tbl, role) : c = d

\* some handler has reset player one and has yet to reset player two
HalfReset ==
    \E d \in DOMAIN invocations :
        /\ Len(invocations[d].writes) = 1
        /\ invocations[d].writes[1].connType = <<"2">>
        /\ ValidKey(invocations[d].writes[1].key)

\* C18: the reset of a won or tied game is atomic under interleaving: no
\* handler scans a registry in which one player has been reset and the other
\* has not, and when the handler that reset the game returns, the two players
\* it found are spectators with no moves
C18_ResetIsAtomic ==
    [][\A c \in GameConns :
          /\ (c \notin DOMAIN invocations /\ c \in DOMAIN invocations') => ~HalfReset
          /\ (/\ c \in DOMAIN invocations /\ c \notin DOMAIN invocations'
              /\ decision' # "" /\ response' = Success)
                 => LET g == scan_conns(scan(invocations[c].seen))
                    IN  IsSpectator(tbl', g.p1_id) /\ IsSpectator(tbl', g.p2_id)]_vars

\* C19: when the makePlay handlers of the two players interleave, no board
\* position is in the stored moves of both players
C19_NoCellInBothInterleaved ==
    \A c \in Holders(tbl, "0"), d \in Holders(tbl, "1") :
        IntSet(OwnMoves(tbl, c)) \cap IntSet(OwnMoves(tbl, d)) = {}

\* C20: a makePlay step of a connection that holds a player role, on a
\* position in neither move list, is accepted and the move is recorded at the
\* end of the caller's list, whoever moved last, however many moves each player
\* has and whether or not the other role is held; while the game goes on the
\* move is stored as well
C20_NoTurnOrderNoStartCheck ==
    [][\A c \in Conns, message \in Messages :
          (/\ route_key' = "makePlay" /\ connection_id' = c
           /\ c \in DOMAIN tbl
           /\ Role(tbl, c) \in {"0", "1"}
           /\ LET g == scan_conns(scan(tbl))
              IN  int(message) \notin IntSet(g.p1_moves \o g.p2_moves)
           /\ MakePlay(c, message))
              => LET g == scan_conns(scan(tbl))
                 IN  /\ Accepted(response')
                     /\ applied' =
                            IF Role(tbl, c) = "0"
                            THEN [p1Moves |-> Append(g.p1_moves, message),
                                  p2Moves |-> g.p2_moves]
                            ELSE [p1Moves |-> g.p1_moves,
                                  p2Moves |-> Append(g.p2_moves, message)]
                     /\ decision' = "" =>
                            OwnMoves(tbl', c) = Append(OwnMoves(tbl, c), message)]_vars

\* a player has completed a winning triple with three moves in a row while
\* the other player role was vacant
C20_Witness ==
    /\ route_key = "makePlay"
    /\ decision = "won"
    /\ response = Raised
    /\ \/ Len(applied.p1Moves) = 3 /\ applied.p2Moves = <<>>
       \/ Len(applied.p2Moves) = 3 /\ applied.p1Moves = <<>>

====
